---- MODULE Spec2Model ----
(***************************************************************************)
(* Model of src/network_report.py: a one-shot batch run that reads a JSON  *)
(* inventory, flattens it (load_devices), aggregates, renders a list of    *)
(* lines and writes them to the report file.                               *)
(*                                                                         *)
(* Python values are tagged records, dicts are functions over the keys     *)
(* that are present, device dicts live in a heap of objects so that the    *)
(* copy made by load_devices is distinguishable from the original.         *)
(* Floats produced by pct are kept as exact fractions <<num, den>>; for    *)
(* the small integers of the model the double arithmetic of the program    *)
(* orders and equates them exactly as the fractions do.                    *)
(***************************************************************************)
EXTENDS Integers, Sequences, FiniteSets, TLC

LOW_UPTIME_DAYS == 30
HIGH_PORT_UTIL_PCT == 80

(* Bounds of the model *)
MaxLocs == 2
MaxDevices == 3

(***************************************************************************)
(* Python values                                                           *)
(***************************************************************************)
None == [t |-> "none"]
PyStr(s) == [t |-> "str", s |-> s]
PyInt(n) == [t |-> "int", n |-> n]
PyFloat(n) == [t |-> "float", tenths |-> n]
PyList(q) == [t |-> "list", items |-> q]
PyDict(f) == [t |-> "dict", d |-> f]

IsStr(x) == x.t = "str"
IsDict(x) == x.t = "dict"

(* dict.get(k, default) on a dict held as a function over its keys *)
Get(d, k, default) == IF k \in DOMAIN d THEN d[k] ELSE default

(* d[k] = v *)
DictSet(d, k, v) == [x \in (DOMAIN d) \cup {k} |-> IF x = k THEN v ELSE d[x]]

EmptyDict == [x \in {} |-> None]

(* Code points of the strings the model uses: what str comparison and int() read *)
CodePoints(s) ==
    CASE s = "" -> << >>
      [] s = "HQ" -> <<72, 81>>
      [] s = "Lab" -> <<76, 97, 98>>
      [] s = "Old" -> <<79, 108, 100>>
      [] s = "ap" -> <<97, 112>>
      [] s = "router" -> <<114, 111, 117, 116, 101, 114>>
      [] s = "Router" -> <<82, 111, 117, 116, 101, 114>>
      [] s = "switch" -> <<115, 119, 105, 116, 99, 104>>
      [] s = "unknown" -> <<117, 110, 107, 110, 111, 119, 110>>
      [] s = "10" -> <<49, 48>>
      [] s = "20" -> <<50, 48>>
      [] s = " 7 " -> <<32, 55, 32>>
      [] s = "-5" -> <<45, 53>>
      [] s = "abc" -> <<97, 98, 99>>

RECURSIVE SeqLess(_, _)
SeqLess(a, b) ==
    IF b = << >> THEN FALSE
    ELSE IF a = << >> THEN TRUE
    ELSE IF Head(a) # Head(b) THEN Head(a) < Head(b)
    ELSE SeqLess(Tail(a), Tail(b))

(* str.__lt__: lexicographic on code points *)
StrLess(s1, s2) == SeqLess(CodePoints(s1), CodePoints(s2))

(***************************************************************************)
(* int(x)                                                                  *)
(***************************************************************************)
Ok(v) == [exc |-> "", v |-> v]
Raise(e) == [exc |-> e, v |-> 0]

RECURSIVE Strip(_)
Strip(cp) ==
    IF cp = << >> THEN cp
    ELSE IF Head(cp) = 32 THEN Strip(Tail(cp))
    ELSE IF cp[Len(cp)] = 32 THEN Strip(SubSeq(cp, 1, Len(cp) - 1))
    ELSE cp

RECURSIVE DigitsValue(_, _)
DigitsValue(cp, acc) ==
    IF cp = << >> THEN acc
    ELSE DigitsValue(Tail(cp), acc * 10 + (Head(cp) - 48))

AllDigits(cp) == cp # << >> /\ \A i \in 1..Len(cp) : cp[i] \in 48..57

ParseInt(s) ==
    LET cp == Strip(CodePoints(s))
        signed == cp # << >> /\ Head(cp) \in {43, 45}
        body == IF signed THEN Tail(cp) ELSE cp
    IN  IF ~AllDigits(body) THEN Raise("ValueError")
        ELSE IF signed /\ Head(cp) = 45 THEN Ok(0 - DigitsValue(body, 0))
        ELSE Ok(DigitsValue(body, 0))

Trunc(tenths) == IF tenths >= 0 THEN tenths \div 10 ELSE 0 - ((0 - tenths) \div 10)

IntOf(x) ==
    CASE x.t = "int" -> Ok(x.n)
      [] x.t = "float" -> Ok(Trunc(x.tenths))
      [] x.t = "str" -> ParseInt(x.s)
      [] OTHER -> Raise("TypeError")

(***************************************************************************)
(* pct                                                                     *)
(***************************************************************************)
Frac(n, d) == IF d < 0 THEN <<0 - n, 0 - d>> ELSE <<n, d>>
Zero == <<0, 1>>

(* the guard on the wrong argument *)
pct_guard_used(used, total) == IF used = 0 THEN Zero ELSE Frac(used * 100, total)
pct(used, total) == IF total = 0 THEN Zero ELSE Frac(used * 100, total)

FracLess(p, q) == p[1] * q[2] < q[1] * p[2]

(* format(p, ".1f"): tenths, rounded to nearest, ties to even *)
Fmt1(p) ==
    LET q == (10 * p[1]) \div p[2]
        r == (10 * p[1]) % p[2]
    IN  IF 2 * r > p[2] THEN q + 1
        ELSE IF 2 * r < p[2] THEN q
        ELSE IF q % 2 = 0 THEN q ELSE q + 1

(***************************************************************************)
(* Heap of device dicts: a reference is an index into the heap             *)
(***************************************************************************)
(* no copy: the same object *)
DictAlias(h, r) == [heap |-> h, ref |-> r]
(* dict(dev): a new object with the same items *)
DictCopy(h, r) == [heap |-> Append(h, h[r]), ref |-> Len(h) + 1]

(* obj[k] = v on the object a reference names *)
HeapSet(h, r, k, v) == [h EXCEPT ![r] = DictSet(h[r], k, v)]

(***************************************************************************)
(* load_devices                                                            *)
(***************************************************************************)
RECURSIVE LoadLoc(_, _, _, _, _, _)
LoadLoc(h, all, refs, site, city, contact) ==
    IF refs = << >> THEN [heap |-> h, all |-> all]
    ELSE LET c == DictCopy(h, Head(refs))
             h1 == HeapSet(c.heap, c.ref, "_site", site)
             h2 == HeapSet(h1, c.ref, "_city", city)
             h3 == HeapSet(h2, c.ref, "_contact", contact)
         IN  LoadLoc(h3, Append(all, c.ref), Tail(refs), site, city, contact)

RECURSIVE LoadLocs(_, _, _)
LoadLocs(h, all, locs) ==
    IF locs = << >> THEN [exc |-> "", heap |-> h, all |-> all]
    ELSE LET loc == Head(locs)
             devs == Get(loc, "devices", PyList(<< >>))
         IN  IF devs.t # "list" THEN [exc |-> "TypeError", heap |-> h, all |-> all]
             ELSE LET r == LoadLoc(h, all, devs.items, Get(loc, "site", None),
                                   Get(loc, "city", None), Get(loc, "contact", None))
                  IN  LoadLocs(r.heap, r.all, Tail(locs))

load_devices(d, h) ==
    LET locs == Get(d, "locations", PyList(<< >>))
    IN  IF locs.t # "list" THEN [exc |-> "TypeError", heap |-> h, all |-> << >>]
        ELSE LoadLocs(h, << >>, locs.items)

(***************************************************************************)
(* Aggregation: main, lines 37-86.  devs is the list of device references  *)
(* returned by load_devices, h the heap they point into.                   *)
(***************************************************************************)
RECURSIVE FirstExc(_)
FirstExc(results) ==
    IF results = << >> THEN ""
    ELSE IF Head(results).exc # "" THEN Head(results).exc
    ELSE FirstExc(Tail(results))

(* the first exception raised by steps evaluated in order *)
RECURSIVE FirstOf(_)
FirstOf(excs) ==
    IF excs = << >> THEN ""
    ELSE IF Head(excs) # "" THEN Head(excs)
    ELSE FirstOf(Tail(excs))

StrIs(x, s) == x.t = "str" /\ x.s = s

(* int(d.get("uptime_days", 0)) *)
UptimeOf(d) == IntOf(Get(d, "uptime_days", PyInt(0)))

StatusIs(h, r, s) == StrIs(Get(h[r], "status", None), s)

IsLowUptime(up) == up < LOW_UPTIME_DAYS

(* by_type[t] = by_type.get(t, 0) + 1 *)
(* counts a key once only *)
CountMiss(m, k) == IF k \in DOMAIN m THEN m ELSE DictSet(m, k, 1)
Count(m, k) == DictSet(m, k, Get(m, k, 0) + 1)

TypeKey(d) == Get(d, "type", PyStr("unknown"))

RECURSIVE ByType(_, _, _)
ByType(h, devs, acc) ==
    IF devs = << >> THEN acc
    ELSE ByType(h, Tail(devs), Count(acc, TypeKey(h[Head(devs)])))

(* d.get("vlans", []) or [], then iterated *)
VlanItems(d) ==
    LET v == Get(d, "vlans", PyList(<< >>))
    IN  CASE v.t = "list" -> Ok(v.items)
          [] v.t = "none" -> Ok(<< >>)
          [] v.t = "int" -> IF v.n = 0 THEN Ok(<< >>) ELSE Raise("TypeError")
          [] OTHER -> Raise("TypeError")

RECURSIVE AddVlans(_, _)
AddVlans(items, acc) ==
    IF items = << >> THEN [exc |-> "", v |-> acc]
    ELSE LET n == IntOf(Head(items))
         IN  IF n.exc # "" THEN [exc |-> n.exc, v |-> acc]
             ELSE AddVlans(Tail(items), acc \cup {n.v})

RECURSIVE VlanSet(_, _, _)
VlanSet(h, devs, acc) ==
    IF devs = << >> THEN [exc |-> "", v |-> acc]
    ELSE LET it == VlanItems(h[Head(devs)])
         IN  IF it.exc # "" THEN [exc |-> it.exc, v |-> acc]
             ELSE LET a == AddVlans(it.v, acc)
                  IN  IF a.exc # "" THEN a ELSE VlanSet(h, Tail(devs), a.v)

(* d.get("type") == "switch" and isinstance(d.get("ports"), dict) *)
IsSwitch(d) == StrIs(Get(d, "type", None), "switch") /\ IsDict(Get(d, "ports", None))

(* int(d["ports"].get("used", 0)) and int(d["ports"].get("total", 0)) *)
UsedOf(d) == IntOf(Get(d.ports.d, "used", PyInt(0)))
TotalOf(d) == IntOf(Get(d.ports.d, "total", PyInt(0)))

RECURSIVE SumSeq(_)
SumSeq(q) == IF q = << >> THEN 0 ELSE Head(q).v + SumSeq(Tail(q))

NewSiteStats ==
    [k \in {PyStr("total"), PyStr("online"), PyStr("offline"), PyStr("warning")} |-> 0]

StatusKey(d) == Get(d, "status", PyStr("online"))

RECURSIVE SiteStats(_, _, _)
SiteStats(h, devs, acc) ==
    IF devs = << >> THEN acc
    ELSE LET d == h[Head(devs)]
             site == d["_site"]
             a1 == IF site \in DOMAIN acc THEN acc ELSE DictSet(acc, site, NewSiteStats)
             s1 == DictSet(a1[site], PyStr("total"), a1[site][PyStr("total")] + 1)
             s2 == DictSet(s1, StatusKey(d), Get(s1, StatusKey(d), 0) + 1)
         IN  SiteStats(h, Tail(devs), DictSet(a1, site, s2))

NewSitePort == [switches |-> 0, used |-> 0, total |-> 0]

RECURSIVE SitePort(_, _, _)
SitePort(h, sw, acc) ==
    IF sw = << >> THEN acc
    ELSE LET d == h[Head(sw)]
             site == d["_site"]
             v == Get(acc, site, NewSitePort)
         IN  SitePort(h, Tail(sw),
                      DictSet(acc, site, [switches |-> v.switches + 1,
                                          used |-> v.used + UsedOf(d).v,
                                          total |-> v.total + TotalOf(d).v]))

(* p >= HIGH_PORT_UTIL_PCT *)
IsHighUtilGE(p) == ~FracLess(p, <<HIGH_PORT_UTIL_PCT, 1>>)
(* p > HIGH_PORT_UTIL_PCT *)
IsHighUtil(p) == FracLess(<<HIGH_PORT_UTIL_PCT, 1>>, p)

RECURSIVE HighPort(_, _)
HighPort(h, sw) ==
    IF sw = << >> THEN << >>
    ELSE LET d == h[Head(sw)]
             p == pct(UsedOf(d).v, TotalOf(d).v)
         IN  IF IsHighUtil(p) THEN <<[dev |-> Head(sw), p |-> p]>> \o HighPort(h, Tail(sw))
             ELSE HighPort(h, Tail(sw))

NoAgg == [done |-> FALSE]

Aggregate(top, h, devs) ==
    LET D(i) == h[devs[i]]
        ups == [i \in 1..Len(devs) |-> UptimeOf(D(i))]
        vl == VlanSet(h, devs, {})
        sw == SelectSeq(devs, LAMBDA r : IsSwitch(h[r]))
        used == [i \in 1..Len(sw) |-> UsedOf(h[sw[i]])]
        tot == [i \in 1..Len(sw) |-> TotalOf(h[sw[i]])]
        e == FirstOf(<<FirstExc(ups), vl.exc, FirstExc(used), FirstExc(tot)>>)
    IN  IF e # "" THEN [exc |-> e, agg |-> NoAgg]
        ELSE [exc |-> "",
              agg |-> [done |-> TRUE,
                       company |-> Get(top, "company", PyStr("Unknown")),
                       offline |-> SelectSeq(devs, LAMBDA r : StatusIs(h, r, "offline")),
                       warning |-> SelectSeq(devs, LAMBDA r : StatusIs(h, r, "warning")),
                       low_uptime |-> SelectSeq(devs, LAMBDA r : IsLowUptime(UptimeOf(h[r]).v)),
                       by_type |-> ByType(h, devs, EmptyDict),
                       vlan_set |-> vl.v,
                       switch_devices |-> sw,
                       total_used |-> SumSeq(used),
                       total_ports |-> SumSeq(tot),
                       total_pct |-> pct(SumSeq(used), SumSeq(tot)),
                       site_stats |-> SiteStats(h, devs, EmptyDict),
                       site_port |-> SitePort(h, sw, EmptyDict),
                       high_port_switches |-> HighPort(h, sw)]]

(***************************************************************************)
(* sorted(): stable, raising TypeError when None is compared to a str      *)
(***************************************************************************)
(* x goes before the first element that must follow it, so equal keys keep
   their order; mode names the key and its direction *)
MustFollow(y, x, mode) ==
    CASE mode = "int_asc" -> x.key < y.key
      [] mode = "int_desc" -> x.key > y.key
      [] mode = "frac_desc" -> FracLess(y.key, x.key)
      [] mode = "str_asc" -> StrLess(x.key, y.key)
RECURSIVE InsertBy(_, _, _)
InsertBy(sorted, x, mode) ==
    IF sorted = << >> THEN <<x>>
    ELSE IF MustFollow(Head(sorted), x, mode) THEN <<x>> \o sorted
    ELSE <<Head(sorted)>> \o InsertBy(Tail(sorted), x, mode)

RECURSIVE SortFrom(_, _, _)
SortFrom(q, acc, mode) ==
    IF q = << >> THEN acc ELSE SortFrom(Tail(q), InsertBy(acc, Head(q), mode), mode)

Sorted(q, mode) == SortFrom(q, << >>, mode)

RECURSIVE SetToSeq(_)
SetToSeq(S) ==
    IF S = {} THEN << >>
    ELSE LET x == CHOOSE y \in S : TRUE IN <<x>> \o SetToSeq(S \ {x})

(* sorted(d.keys()) for keys that are str or None *)
SortedKeys(keys) ==
    IF Cardinality(keys) >= 2 /\ \E k \in keys : ~IsStr(k) THEN Raise("TypeError")
    ELSE IF \E k \in keys : ~IsStr(k) THEN Ok(SetToSeq(keys))
    ELSE LET q == SetToSeq({[key |-> k.s, val |-> k] : k \in keys})
             srt == Sorted(q, "str_asc")
         IN  Ok([i \in 1..Len(srt) |-> srt[i].val])

(* sorted(vlan_set, reverse=True) *)
SortedIntsDesc(S) ==
    LET q == SetToSeq({[key |-> n, val |-> n] : n \in S})
        srt == Sorted(q, "int_desc")
    IN  [i \in 1..Len(srt) |-> srt[i].val]
(* sorted(vlan_set) *)
SortedInts(S) ==
    LET q == SetToSeq({[key |-> n, val |-> n] : n \in S})
        srt == Sorted(q, "int_asc")
    IN  [i \in 1..Len(srt) |-> srt[i].val]

(***************************************************************************)
(* Rendering: main, lines 89-189.  A line is kept as the section that      *)
(* appended it, the kind of line and the values formatted into it.         *)
(***************************************************************************)
Ln(sec, k, a) == [sec |-> sec, k |-> k, a |-> a]

(* str(x) / f"{x}" *)
StrOf(x) == CASE x.t = "none" -> "None" [] x.t = "str" -> x.s

(* f"{x:16}": NoneType.__format__ rejects a format spec *)
FmtStr(x) == IF x.t = "str" THEN Ok(x.s) ELSE Raise("TypeError")

RECURSIVE Concat(_)
Concat(qs) == IF qs = << >> THEN << >> ELSE Head(qs) \o Concat(Tail(qs))

DeviceRow(sec, d) ==
    Ln(sec, "row", <<StrOf(Get(d, "hostname", PyStr(""))),
                     StrOf(Get(d, "ip_address", PyStr(""))),
                     StrOf(Get(d, "type", PyStr(""))),
                     StrOf(d["_site"]),
                     UptimeOf(d).v>>)

add_device_list(sec, h, devs) ==
    <<Ln(sec, "title", << >>), Ln(sec, "rule", << >>)>> \o
    (IF devs = << >> THEN <<Ln(sec, "Inga.", << >>), Ln(sec, "", << >>)>>
     ELSE <<Ln(sec, "header", << >>), Ln(sec, "underline", << >>)>>
          \o [i \in 1..Len(devs) |-> DeviceRow(sec, h[devs[i]])]
          \o <<Ln(sec, "", << >>)>>)

HeaderLines(a) ==
    IF ~IsStr(a.company) THEN Raise("TypeError")
    ELSE Ok(<<Ln("head", "rule", << >>), Ln("head", "title", <<a.company.s>>),
              Ln("head", "rule", << >>), Ln("head", "date", << >>),
              Ln("head", "updated", << >>), Ln("head", "", << >>)>>)

SummaryLines(a) ==
    <<Ln("summary", "title", << >>), Ln("summary", "rule", << >>),
      Ln("summary", "KRITISKT", <<Len(a.offline)>>),
      Ln("summary", "VARNING", <<Len(a.warning)>>),
      Ln("summary", "OBS uptime", <<Len(a.low_uptime)>>),
      Ln("summary", "OBS ports", <<Len(a.high_port_switches)>>),
      Ln("summary", "", << >>)>>

(* the listing left in document order *)
SortLowUptimeUnsorted(h, low) == [i \in 1..Len(low) |-> [key |-> UptimeOf(h[low[i]]).v, val |-> low[i]]]
(* sorted(low_uptime, key=lambda d: int(d.get("uptime_days", 0))) *)
SortLowUptime(h, low) ==
    Sorted([i \in 1..Len(low) |-> [key |-> UptimeOf(h[low[i]]).v, val |-> low[i]]], "int_asc")

LowUptimeLines(h, a) ==
    LET srt == SortLowUptime(h, a.low_uptime)
        host(i) == FmtStr(Get(h[srt[i].val], "hostname", PyStr("")))
        stat(i) == FmtStr(Get(h[srt[i].val], "status", PyStr("")))
        bad == \E i \in 1..Len(srt) : host(i).exc # "" \/ stat(i).exc # ""
    IN  IF bad THEN Raise("TypeError")
        ELSE Ok(<<Ln("lowuptime", "title", << >>), Ln("lowuptime", "rule", << >>)>> \o
                (IF a.low_uptime # << >>
                 THEN [i \in 1..Len(srt) |->
                         Ln("lowuptime", "dev", <<host(i).v, srt[i].key, stat(i).v,
                                                  StrOf(h[srt[i].val]["_site"]), srt[i].val>>)]
                 ELSE <<Ln("lowuptime", "Inga.", << >>)>>) \o
                <<Ln("lowuptime", "", << >>)>>)

TypeLines(a, total) ==
    LET ks == SortedKeys(DOMAIN a.by_type)
    IN  IF ks.exc # "" THEN ks
        ELSE IF \E i \in 1..Len(ks.v) : FmtStr(ks.v[i]).exc # "" THEN Raise("TypeError")
        ELSE Ok(<<Ln("types", "title", << >>), Ln("types", "rule", << >>)>> \o
                [i \in 1..Len(ks.v) |-> Ln("types", "type", <<ks.v[i].s, a.by_type[ks.v[i]]>>)] \o
                <<Ln("types", "rule40", << >>), Ln("types", "TOTALT", <<total>>),
                  Ln("types", "", << >>)>>)

PortLines(a) ==
    LET ks == SortedKeys(DOMAIN a.site_port)
    IN  IF ks.exc # "" THEN ks
        ELSE IF \E i \in 1..Len(ks.v) : FmtStr(ks.v[i]).exc # "" THEN Raise("TypeError")
        ELSE Ok(<<Ln("ports", "title", << >>), Ln("ports", "rule", << >>),
                  Ln("ports", "Totalt", <<a.total_used, a.total_ports, Fmt1(a.total_pct)>>),
                  Ln("ports", "", << >>), Ln("ports", "Per site:", << >>)>> \o
                [i \in 1..Len(ks.v) |->
                    LET v == a.site_port[ks.v[i]]
                    IN  Ln("ports", "site", <<ks.v[i].s, v.switches, v.used, v.total,
                                              Fmt1(pct(v.used, v.total))>>)] \o
                <<Ln("ports", "", << >>)>>)

(* sorted(high_port_switches, key=lambda x: x[1], reverse=True) *)
SortHighPort(hp) ==
    Sorted([i \in 1..Len(hp) |-> [key |-> hp[i].p, val |-> hp[i].dev]], "frac_desc")

HighPortLines(h, a) ==
    LET srt == SortHighPort(a.high_port_switches)
        host(i) == FmtStr(Get(h[srt[i].val], "hostname", PyStr("")))
    IN  IF \E i \in 1..Len(srt) : host(i).exc # "" THEN Raise("TypeError")
        ELSE Ok(<<Ln("highport", "title", << >>), Ln("highport", "rule", << >>)>> \o
                (IF a.high_port_switches # << >>
                 THEN [i \in 1..Len(srt) |->
                         LET d == h[srt[i].val]
                         IN  Ln("highport", "switch", <<host(i).v, UsedOf(d).v, TotalOf(d).v,
                                                        Fmt1(srt[i].key),
                                                        StrOf(d["_site"]), srt[i].val>>)]
                 ELSE <<Ln("highport", "Inga.", << >>)>>) \o
                <<Ln("highport", "", << >>)>>)

VlanLines(a) ==
    LET vlans_sorted == SortedInts(a.vlan_set)
    IN  <<Ln("vlans", "title", << >>), Ln("vlans", "rule", << >>),
          Ln("vlans", "count", <<Len(vlans_sorted)>>),
          Ln("vlans", "VLANs", vlans_sorted),
          Ln("vlans", "", << >>)>>

SiteLines(a) ==
    LET ks == SortedKeys(DOMAIN a.site_stats)
    IN  IF ks.exc # "" THEN ks
        ELSE Ok(<<Ln("sites", "title", << >>), Ln("sites", "rule", << >>)>> \o
                [i \in 1..Len(ks.v) |->
                    LET v == a.site_stats[ks.v[i]]
                    IN  Ln("sites", "site", <<StrOf(ks.v[i]), v[PyStr("total")],
                                              Get(v, PyStr("online"), 0),
                                              Get(v, PyStr("offline"), 0),
                                              Get(v, PyStr("warning"), 0)>>)] \o
                <<Ln("sites", "", << >>), Ln("end", "rule", << >>),
                  Ln("end", "RAPPORT SLUT", << >>), Ln("end", "rule", << >>)>>)

Render(h, devs, a) ==
    LET hd == HeaderLines(a)
        lu == LowUptimeLines(h, a)
        ty == TypeLines(a, Len(devs))
        po == PortLines(a)
        hi == HighPortLines(h, a)
        si == SiteLines(a)
        e == FirstOf(<<hd.exc, lu.exc, ty.exc, po.exc, hi.exc, si.exc>>)
    IN  IF e # "" THEN [exc |-> e, lines |-> << >>]
        ELSE [exc |-> "",
              lines |-> Concat(<<hd.v, SummaryLines(a),
                                 add_device_list("offline", h, a.offline),
                                 add_device_list("warning", h, a.warning),
                                 lu.v, ty.v, po.v, hi.v, VlanLines(a), si.v>>)]

(***************************************************************************)
(* Input documents                                                         *)
(***************************************************************************)
SeqsUpTo(S, n) == UNION {[1..k -> S] : k \in 0..n}

(* c[i] devices lie in the first i locations *)
Cuts(nl, n) ==
    {c \in [0..nl -> 0..n] : c[0] = 0 /\ c[nl] = n /\ \A i \in 1..nl : c[i - 1] <= c[i]}

Location(head, kind, refs) ==
    CASE kind = "list" -> DictSet(head, "devices", PyList(refs))
      [] kind = "null" -> DictSet(head, "devices", None)
      [] kind = "absent" -> head

MkDoc(devs, nl, c, heads, kinds, top) ==
    [top |-> DictSet(top, "locations",
                     PyList([i \in 1..nl |->
                               Location(heads[i], kinds[i],
                                        [j \in 1..(c[i] - c[i - 1]) |-> c[i - 1] + j])])),
     objs |-> devs]

KindsFor(nl, c, Kinds) ==
    {k \in [1..nl -> Kinds] : \A i \in 1..nl : c[i] > c[i - 1] => k[i] = "list"}

Failures == {[st |-> "missing"], [st |-> "unreadable"], [st |-> "malformed"]}

NoFile == [exists |-> FALSE, text |-> << >>]
OldFile == [exists |-> TRUE, text |-> <<Ln("old", "old", << >>)>>]

(***************************************************************************)
(* The run: main                                                           *)
(***************************************************************************)
VARIABLES
    input,      \* the input file: unreadable, unparsable, or the document it holds
    fs0,        \* the output directory and report file when the run starts
    fs,         \* the output directory and report file now
    pc,         \* the step of main that runs next
    exc,        \* the exception that ended the run, if any
    data,       \* the parsed document
    heap,       \* the device dicts, by reference
    devices,    \* the list load_devices returned
    agg,        \* the aggregates of lines 37-86
    lines,      \* the rendered lines
    stdout,
    writes      \* how often the report file was written

vars == <<input, fs0, fs, pc, exc, data, heap, devices, agg, lines, stdout, writes>>

(* the input file holds a document of at most MaxDevices devices from Pool, spread
   over a number of locations drawn from LocCounts, or one of Extras, or it
   cannot be read or parsed *)
AnyLocs == 0..MaxLocs
OneLoc == {1}

InitRun(Pool, LocCounts, Heads, Kinds, Tops, Extras, Files) ==
    /\ \/ \E devs \in SeqsUpTo(Pool, MaxDevices), nl \in LocCounts :
            \E c \in Cuts(nl, Len(devs)) :
              \E heads \in [1..nl -> Heads], kinds \in KindsFor(nl, c, Kinds), top \in Tops :
                input = [st |-> "ok", doc |-> MkDoc(devs, nl, c, heads, kinds, top)]
       \/ input \in {[st |-> "ok", doc |-> d] : d \in Extras} \cup Failures
    /\ fs \in Files
    /\ fs0 = fs
    /\ pc = "mkdir"
    /\ exc = ""
    /\ data = EmptyDict
    /\ heap = << >>
    /\ devices = << >>
    /\ agg = NoAgg
    /\ lines = << >>
    /\ stdout = << >>
    /\ writes = 0

AllFiles == {[dir |-> FALSE, report |-> NoFile], [dir |-> TRUE, report |-> NoFile],
             [dir |-> TRUE, report |-> OldFile]}

FreshFiles == {[dir |-> FALSE, report |-> NoFile]}

(* out_path.parent.mkdir(parents=True, exist_ok=True) *)
Mkdir ==
    /\ pc = "mkdir"
    /\ fs' = [fs EXCEPT !.dir = TRUE]
    /\ pc' = "read"
    /\ UNCHANGED <<input, fs0, exc, data, heap, devices, agg, lines, stdout, writes>>

ReadExc(st) ==
    CASE st = "missing" -> "FileNotFoundError"
      [] st = "unreadable" -> "PermissionError"
      [] st = "malformed" -> "JSONDecodeError"

(* data = json.loads(data_path.read_text(encoding="utf-8")) *)
ReadInput ==
    /\ pc = "read"
    /\ IF input.st = "ok"
       THEN /\ data' = input.doc.top
            /\ heap' = input.doc.objs
            /\ pc' = "load"
            /\ exc' = exc
       ELSE /\ pc' = "aborted"
            /\ exc' = ReadExc(input.st)
            /\ UNCHANGED <<data, heap>>
    /\ UNCHANGED <<input, fs0, fs, devices, agg, lines, stdout, writes>>

(* devices = load_devices(data) *)
LoadDevices ==
    /\ pc = "load"
    /\ LET r == load_devices(data, heap)
       IN  /\ heap' = r.heap
           /\ IF r.exc = ""
              THEN devices' = r.all /\ pc' = "aggregate" /\ exc' = exc
              ELSE devices' = devices /\ pc' = "crashed" /\ exc' = r.exc
    /\ UNCHANGED <<input, fs0, fs, data, agg, lines, stdout, writes>>

(* main, lines 37-86 *)
Aggregation ==
    /\ pc = "aggregate"
    /\ LET r == Aggregate(data, heap, devices)
       IN  IF r.exc = ""
           THEN agg' = r.agg /\ pc' = "render" /\ exc' = exc
           ELSE agg' = agg /\ pc' = "crashed" /\ exc' = r.exc
    /\ UNCHANGED <<input, fs0, fs, data, heap, devices, lines, stdout, writes>>

(* main, lines 89-189 *)
Rendering ==
    /\ pc = "render"
    /\ LET r == Render(heap, devices, agg)
       IN  IF r.exc = ""
           THEN lines' = r.lines /\ pc' = "write" /\ exc' = exc
           ELSE lines' = lines /\ pc' = "crashed" /\ exc' = r.exc
    /\ UNCHANGED <<input, fs0, fs, data, heap, devices, agg, stdout, writes>>

(* out_path.write_text("\n".join(lines)); print(...) *)
WriteReport ==
    /\ pc = "write"
    /\ fs' = [fs EXCEPT !.report = [exists |-> TRUE, text |-> lines]]
    /\ writes' = writes + 1
    /\ stdout' = Append(stdout, "OK: Skapade")
    /\ pc' = "done"
    /\ UNCHANGED <<input, fs0, exc, data, heap, devices, agg, lines>>

Next == Mkdir \/ ReadInput \/ LoadDevices \/ Aggregation \/ Rendering \/ WriteReport

(***************************************************************************)
(* Inputs                                                                  *)
(***************************************************************************)
HQ == [site |-> PyStr("HQ"), city |-> PyStr("Stockholm"), contact |-> PyStr("anna")]
Lab == [site |-> PyStr("Lab"), city |-> PyStr("Lund")]
NoSite == [city |-> PyStr("Umea"), contact |-> PyStr("bo")]
NullSite == [site |-> None, city |-> None, contact |-> None]

Acme == [company |-> PyStr("Acme"), last_updated |-> PyStr("2024-01-01")]

Ports(u, t) == PyDict([used |-> u, total |-> t])

NoLocations == [top |-> Acme, objs |-> << >>]
NullLocations == [top |-> [locations |-> None], objs |-> << >>]

(* well-formed and malformed devices *)
MixedPool ==
    {[hostname |-> PyStr("sw1"), ip_address |-> PyStr("10.0.0.1"), type |-> PyStr("switch"),
      status |-> PyStr("offline"), uptime_days |-> PyInt(12),
      vlans |-> PyList(<<PyInt(10), PyInt(20)>>), ports |-> Ports(PyInt(9), PyInt(10))],
     [hostname |-> PyStr("r1"), type |-> PyStr("router"), uptime_days |-> PyInt(45)],
     [hostname |-> PyStr("r2"), type |-> PyStr("router"), uptime_days |-> None],
     [hostname |-> PyStr("sw2"), type |-> PyStr("switch"), uptime_days |-> PyInt(40),
      ports |-> Ports(PyStr("abc"), PyInt(10))],
     [hostname |-> PyStr("ap1"), type |-> PyStr("ap"), uptime_days |-> PyStr(" 7 "),
      vlans |-> PyList(<<PyFloat(105), PyStr("abc")>>)]}

Init ==
    InitRun(MixedPool, AnyLocs, {HQ, NoSite, NullSite}, {"list", "absent", "null"},
            {Acme, EmptyDict, [company |-> None]}, {NoLocations, NullLocations}, AllFiles)

Spec == Init /\ [][Next]_vars

(***************************************************************************)
(* Claims checked under Spec                                               *)
(***************************************************************************)
Parsed == input.st = "ok"

(* C1: once the input document is parsed, no missing or malformed field makes
   the run fail: the run never ends in an exception after json.loads. *)
C1_MalformedFieldsNeverFail == Parsed => pc # "crashed"

(* C2: when the input file is missing, unreadable or malformed JSON, the run
   aborts with the output directory and the report file exactly as they were
   when it started, and the report file is written at most once, as the last
   step, from the finished list of lines. *)
C2_AbortBeforeAnyOutput ==
    /\ pc = "aborted" => fs = fs0
    /\ writes <= 1
    /\ writes = 1 => pc = "done" /\ fs.report = [exists |-> TRUE, text |-> lines]
    /\ pc # "done" => fs.report = fs0.report

EmptyLocations == Parsed /\ Get(input.doc.top, "locations", None) = PyList(<< >>)

SectionOf(sec) == SelectSeq(lines, LAMBDA l : l.sec = sec)
Middle(q) == SubSeq(q, 3, Len(q) - 1)
OnlyPlaceholder(sec) == [i \in 1..Len(Middle(SectionOf(sec))) |-> Middle(SectionOf(sec))[i].k] = <<"Inga.">>

(* C10: a document whose locations array is empty never raises, and every
   section of its report shows the placeholder or a zero count. *)
C10_EmptyLocationsPlaceholders ==
    EmptyLocations =>
        /\ pc # "crashed"
        /\ pc \in {"write", "done"} =>
             /\ [i \in 3..6 |-> SectionOf("summary")[i].a] = [i \in 3..6 |-> <<0>>]
             /\ SectionOf("offline")[3].k = "Inga."
             /\ SectionOf("warning")[3].k = "Inga."
             /\ OnlyPlaceholder("lowuptime")
             /\ OnlyPlaceholder("highport")
             /\ \E i \in 1..Len(lines) : lines[i] = Ln("types", "TOTALT", <<0>>)
             /\ ~\E i \in 1..Len(lines) : lines[i].sec = "types" /\ lines[i].k = "type"
             /\ \E i \in 1..Len(lines) : lines[i] = Ln("ports", "Totalt", <<0, 0, 0>>)
             /\ \E i \in 1..Len(lines) : lines[i] = Ln("vlans", "count", <<0>>)

(* the same, for documents whose company is a string or absent *)
C10_WithStringCompany ==
    (Parsed /\ IsStr(Get(input.doc.top, "company", PyStr("Unknown")))) => C10_EmptyLocationsPlaceholders
C10_Reached == EmptyLocations /\ pc = "done"

(***************************************************************************)
(* load_devices, checked over documents of every shape                     *)
(***************************************************************************)
LoadPool ==
    {[hostname |-> PyStr("a"), status |-> PyStr("offline")],
     [hostname |-> PyStr("b"), _site |-> PyStr("Old"), _city |-> PyStr("Old")]}

InitLoad ==
    InitRun(LoadPool, AnyLocs, {HQ, Lab, NoSite}, {"list", "absent"}, {Acme}, {NoLocations}, FreshFiles)

SpecLoad == InitLoad /\ [][Next]_vars

Loaded == pc \in {"aggregate", "render", "write", "done"}

DocLocs == Get(input.doc.top, "locations", PyList(<< >>)).items
DocRefs(loc) == Get(loc, "devices", PyList(<< >>)).items
Range(q) == {q[i] : i \in 1..Len(q)}

(* the location of the document that holds device k; the devices of a document
   are numbered 1, 2, ... in document order *)
LocOf(k) == DocLocs[CHOOSE i \in 1..Len(DocLocs) : k \in Range(DocRefs(DocLocs[i]))]

Enriched(dev, loc) ==
    [x \in (DOMAIN dev) \cup {"_site", "_city", "_contact"} |->
        CASE x = "_site" -> Get(loc, "site", None)
          [] x = "_city" -> Get(loc, "city", None)
          [] x = "_contact" -> Get(loc, "contact", None)
          [] OTHER -> dev[x]]

(* C3: load_devices returns one record per device of the document, in document
   order, each the source device plus _site/_city/_contact of its own location;
   locations without devices (and a missing locations key) contribute nothing;
   the parsed document and its device dicts are unchanged. *)
C3_LoadDevicesFlattens ==
    Loaded =>
        /\ Len(devices) = Len(input.doc.objs)
        /\ \A k \in 1..Len(devices) :
             heap[devices[k]] = Enriched(input.doc.objs[k], LocOf(k))
        /\ data = input.doc.top
        /\ \A k \in 1..Len(input.doc.objs) : heap[k] = input.doc.objs[k]

C3_Reached ==
    /\ Loaded
    /\ Len(devices) >= 2
    /\ input.doc.objs[1] = input.doc.objs[2]
    /\ heap[devices[1]]["_site"] # heap[devices[2]]["_site"]

(***************************************************************************)
(* Switch port utilisation                                                 *)
(***************************************************************************)
Switch(name, u, t) == [hostname |-> PyStr(name), type |-> PyStr("switch"), ports |-> Ports(u, t)]

PortPool ==
    {Switch("sw1", PyInt(9), PyInt(10)),
     Switch("sw2", PyInt(18), PyInt(20)),
     Switch("sw3", PyInt(19), PyStr("20")),
     Switch("sw4", PyInt(8), PyInt(10)),
     Switch("sw5", PyInt(5), PyInt(0)),
     [hostname |-> PyStr("sw6"), type |-> PyStr("switch"), ports |-> PyList(<<PyInt(10), PyInt(10)>>)],
     [hostname |-> PyStr("r1"), type |-> PyStr("router"), ports |-> Ports(PyInt(10), PyInt(10))]}

InitPorts == InitRun(PortPool, OneLoc, {HQ}, {"list"}, {Acme}, {}, FreshFiles)

SpecPorts == InitPorts /\ [][Next]_vars

Rendered == pc \in {"write", "done"}

(* the devices named by the rows of the high-utilisation listing, in row order *)
HighRows == SelectSeq(lines, LAMBDA l : l.sec = "highport" /\ l.k = "switch")
HighDevs == [i \in 1..Len(HighRows) |-> HighRows[i].a[6]]

PosOf(r) == CHOOSE k \in 1..Len(devices) : devices[k] = r

IsSwitchDev(d) ==
    /\ "type" \in DOMAIN d /\ d.type = PyStr("switch")
    /\ "ports" \in DOMAIN d /\ d.ports.t = "dict"

Used(d) == IntOf(d.ports.d.used).v
Total(d) == IntOf(d.ports.d.total).v

(* used/total*100 > 80.0, a total of 0 counting as 0.0 *)
Over80(d) == Total(d) # 0 /\ Used(d) * 100 > 80 * Total(d)

(* C4: the high-utilisation listing holds exactly the switch devices (type
   "switch", ports a mapping) whose used/total*100 exceeds 80.0, a total of 0
   never listed, in descending order of the percentage, equal percentages in
   document order. *)
C4_HighUtilisationListing ==
    Rendered =>
        /\ Range(HighDevs) = {r \in Range(devices) : IsSwitchDev(heap[r]) /\ Over80(heap[r])}
        /\ Len(HighDevs) = Cardinality(Range(HighDevs))
        /\ \A i, j \in 1..Len(HighDevs) :
             i < j =>
               LET di == heap[HighDevs[i]]
                   dj == heap[HighDevs[j]]
               IN  /\ Used(di) * Total(dj) >= Used(dj) * Total(di)
                   /\ Used(di) * Total(dj) = Used(dj) * Total(di)
                        => PosOf(HighDevs[i]) < PosOf(HighDevs[j])
        /\ \A i \in 1..Len(HighRows) :
             LET d == heap[HighDevs[i]]
             IN  HighRows[i].a[4] = Fmt1(<<Used(d) * 100, Total(d)>>)

(* three switches are listed: the second of the document first, the two others,
   of equal percentage, after it in document order *)
C4_TieReached ==
    /\ pc = "done"
    /\ Len(HighDevs) = 3
    /\ Used(heap[HighDevs[2]]) * Total(heap[HighDevs[3]]) = Used(heap[HighDevs[3]]) * Total(heap[HighDevs[2]])
    /\ heap[HighDevs[2]] # heap[HighDevs[3]]
    /\ PosOf(HighDevs[1]) = 2

(***************************************************************************)
(* pct, on the global, per-site and per-switch figures                     *)
(***************************************************************************)
PctPool ==
    {Switch("sw1", PyInt(9), PyInt(10)),
     Switch("sw5", PyInt(5), PyInt(0)),
     Switch("sw7", PyInt(1), PyInt(3))}

InitPct == InitRun(PctPool, AnyLocs, {HQ, Lab}, {"list"}, {Acme}, {}, FreshFiles)

SpecPct == InitPct /\ [][Next]_vars

Aggregated == pc \in {"render", "write", "done"}

(* p is pct(used, total): exactly 0.0 for a total of 0, else used/total*100 *)
PctIs(p, used, total) ==
    IF total = 0 THEN p = <<0, 1>>
    ELSE p[2] # 0 /\ p[1] * total = used * 100 * p[2]

RECURSIVE SumOver(_, _)
SumOver(S, field) ==
    IF S = {} THEN 0
    ELSE LET r == CHOOSE x \in S : TRUE
         IN  (IF field = "used" THEN Used(heap[r]) ELSE Total(heap[r])) + SumOver(S \ {r}, field)

SwitchRefs == {r \in Range(devices) : IsSwitchDev(heap[r])}
SiteSwitchRefs(site) == {r \in SwitchRefs : heap[r]["_site"] = PyStr(site)}

ShownPct(used, total) == IF total = 0 THEN 0 ELSE Fmt1(<<used * 100, total>>)

(* C9: pct(used, total) is exactly 0.0 when total is 0 and used/total*100
   otherwise, and it is the figure of the global port-utilisation line, of every
   row of the per-site table and of the per-switch high-utilisation test. *)
C9_PctDefinedAtZero ==
    /\ Aggregated =>
         /\ agg.total_used = SumOver(SwitchRefs, "used")
         /\ agg.total_ports = SumOver(SwitchRefs, "total")
         /\ PctIs(agg.total_pct, agg.total_used, agg.total_ports)
         /\ \A i \in 1..Len(agg.high_port_switches) :
              LET e == agg.high_port_switches[i]
              IN  PctIs(e.p, Used(heap[e.dev]), Total(heap[e.dev]))
         /\ \A r \in SwitchRefs :
              Over80(heap[r]) <=> \E i \in 1..Len(agg.high_port_switches) :
                                     agg.high_port_switches[i].dev = r
    /\ Rendered =>
         /\ \E i \in 1..Len(lines) :
              lines[i] = Ln("ports", "Totalt",
                            <<agg.total_used, agg.total_ports,
                              ShownPct(agg.total_used, agg.total_ports)>>)
         /\ \A i \in 1..Len(lines) :
              (lines[i].sec = "ports" /\ lines[i].k = "site") =>
                 LET a == lines[i].a
                 IN  /\ a[3] = SumOver(SiteSwitchRefs(a[1]), "used")
                     /\ a[4] = SumOver(SiteSwitchRefs(a[1]), "total")
                     /\ a[5] = ShownPct(a[3], a[4])

(* a site whose switches have no ports at all is shown at 0.0 beside a site in use *)
C9_Reached ==
    /\ pc = "done"
    /\ agg.total_ports # 0
    /\ \E i \in 1..Len(lines) :
         /\ lines[i].sec = "ports" /\ lines[i].k = "site"
         /\ lines[i].a[3] > 0 /\ lines[i].a[4] = 0 /\ lines[i].a[5] = 0
    /\ \E i \in 1..Len(lines) :
         /\ lines[i].sec = "ports" /\ lines[i].k = "site"
         /\ lines[i].a[4] > 0 /\ lines[i].a[5] > 0

(***************************************************************************)
(* Per-site status counters                                                *)
(***************************************************************************)
Plain(name, st) == [hostname |-> PyStr(name), status |-> st, uptime_days |-> PyInt(45)]

StatusPool ==
    {[hostname |-> PyStr("a"), uptime_days |-> PyInt(45)],
     Plain("b", PyStr("offline")),
     Plain("c", PyStr("maint")),
     Plain("d", PyStr("total")),
     Plain("e", None)}

InitStatus == InitRun(StatusPool, AnyLocs, {HQ, Lab, NoSite}, {"list"}, {Acme}, {}, FreshFiles)

SpecStatus == InitStatus /\ [][Next]_vars

StatusOf(d) == IF "status" \in DOMAIN d THEN d.status ELSE PyStr("online")
SiteRefs(site) == {k \in 1..Len(devices) : heap[devices[k]]["_site"] = site}

CountersMatch(site, statuses) ==
    /\ agg.site_stats[site][PyStr("total")] = Cardinality(SiteRefs(site))
    /\ \A s \in statuses :
         Get(agg.site_stats[site], s, 0) =
            Cardinality({k \in SiteRefs(site) : StatusOf(heap[devices[k]]) = s})

(* C5: after the per-site status pass, a site's total counter is the number of
   its devices and its counter for every status occurring in the data (absent
   counted as online) is the number of its devices with that status. *)
C5_SiteCounters ==
    Aggregated =>
        /\ DOMAIN agg.site_stats = {heap[r]["_site"] : r \in Range(devices)}
        /\ \A site \in DOMAIN agg.site_stats :
             CountersMatch(site, {StatusOf(heap[r]) : r \in Range(devices)})

(* the same while no device has the status "total" *)
C5_UnlessStatusTotal ==
    (Aggregated /\ \A r \in Range(devices) : StatusOf(heap[r]) # PyStr("total")) =>
        \A site \in DOMAIN agg.site_stats :
            CountersMatch(site, {StatusOf(heap[r]) : r \in Range(devices)})

(***************************************************************************)
(* VLAN summary                                                            *)
(***************************************************************************)
Vl(name, q) == [hostname |-> PyStr(name), uptime_days |-> PyInt(45), vlans |-> q]

VlanPool ==
    {[hostname |-> PyStr("a"), uptime_days |-> PyInt(45)],
     Vl("b", PyList(<<PyInt(10), PyInt(20)>>)),
     Vl("c", PyList(<<PyInt(30), PyInt(10), PyInt(30)>>)),
     Vl("d", PyList(<<PyStr("20"), PyFloat(55)>>)),
     Vl("e", None),
     Vl("f", PyList(<< >>))}

InitVlans == InitRun(VlanPool, OneLoc, {HQ}, {"list"}, {Acme}, {}, FreshFiles)

SpecVlans == InitVlans /\ [][Next]_vars

VlanRow == SelectSeq(lines, LAMBDA l : l.sec = "vlans" /\ l.k = "VLANs")[1].a
VlanCount == SelectSeq(lines, LAMBDA l : l.sec = "vlans" /\ l.k = "count")[1].a[1]

EntriesOf(d) ==
    IF "vlans" \in DOMAIN d /\ d.vlans.t = "list" THEN Range(d.vlans.items) ELSE {}

(* C6: the VLAN list is the union of the devices' vlans entries (as integers),
   strictly ascending and so free of duplicates, and the count printed is the
   number of values listed. *)
C6_VlanSummary ==
    Rendered =>
        /\ Range(VlanRow) = UNION {{IntOf(e).v : e \in EntriesOf(heap[r])} : r \in Range(devices)}
        /\ \A i, j \in 1..Len(VlanRow) : i < j => VlanRow[i] < VlanRow[j]
        /\ VlanCount = Len(VlanRow)

(* values repeated inside one device and across devices, out of order *)
C6_Reached ==
    /\ pc = "done"
    /\ Len(devices) = 3
    /\ VlanRow = <<5, 10, 20, 30>>
    /\ heap[devices[1]].hostname = PyStr("c")
    /\ heap[devices[2]].hostname = PyStr("d")
    /\ heap[devices[3]].hostname = PyStr("b")

(***************************************************************************)
(* Low-uptime listing                                                      *)
(***************************************************************************)
Up(name, u) == [hostname |-> PyStr(name), uptime_days |-> u]

UptimePool ==
    {[hostname |-> PyStr("a")],
     Up("b", PyInt(-5)),
     Up("c", PyInt(29)),
     Up("d", PyInt(30)),
     Up("e", PyFloat(5)),
     Up("f", PyStr(" 7 "))}

InitUptime == InitRun(UptimePool, OneLoc, {HQ}, {"list"}, {Acme}, {}, FreshFiles)

SpecUptime == InitUptime /\ [][Next]_vars

LowRows == SelectSeq(lines, LAMBDA l : l.sec = "lowuptime" /\ l.k = "dev")
LowDevs == [i \in 1..Len(LowRows) |-> LowRows[i].a[5]]
RowOf(r) == CHOOSE i \in 1..Len(LowRows) : LowDevs[i] = r

DaysOf(d) == IF "uptime_days" \in DOMAIN d THEN IntOf(d.uptime_days).v ELSE 0
NoUptime(r) == "uptime_days" \notin DOMAIN heap[r]

LowListingExact ==
    /\ Range(LowDevs) = {r \in Range(devices) : DaysOf(heap[r]) < 30}
    /\ Len(LowDevs) = Cardinality(Range(LowDevs))
    /\ \A i \in 1..Len(LowRows) : LowRows[i].a[2] = DaysOf(heap[LowDevs[i]])

(* C7: a device without uptime_days counts as uptime 0, is always in the
   low-uptime listing (exactly the devices below 30), and no device with a
   different uptime value is listed before it. *)
C7_MissingUptimeListedFirst ==
    Rendered =>
        /\ LowListingExact
        /\ \A r \in Range(devices) :
             NoUptime(r) =>
                /\ r \in Range(LowDevs)
                /\ LowRows[RowOf(r)].a[2] = 0
                /\ \A i \in 1..(RowOf(r) - 1) : LowRows[i].a[2] = 0

(* C7 as amended: ... and no device with a greater uptime value is listed
   before it: the listing is ascending, so only devices of uptime 0 or less
   (negative uptime_days) can precede it. *)
C7_MissingUptimeBeforeGreater ==
    Rendered =>
        /\ LowListingExact
        /\ \A i, j \in 1..Len(LowRows) : i < j => LowRows[i].a[2] <= LowRows[j].a[2]
        /\ \A r \in Range(devices) :
             NoUptime(r) =>
                /\ r \in Range(LowDevs)
                /\ LowRows[RowOf(r)].a[2] = 0
                /\ \A i \in 1..(RowOf(r) - 1) : LowRows[i].a[2] <= 0
                /\ \A i \in 1..Len(LowRows) : LowRows[i].a[2] > 0 => RowOf(r) < i

(* the device without uptime_days comes first in the document, a negative
   uptime is listed before it and a positive one after it *)
C7_Reached ==
    /\ pc = "done"
    /\ Len(devices) = 3
    /\ NoUptime(devices[1])
    /\ Len(LowRows) = 3
    /\ LowDevs[2] = devices[1]
    /\ LowRows[1].a[2] < 0
    /\ LowRows[3].a[2] > 0

(***************************************************************************)
(* Type histogram                                                          *)
(***************************************************************************)
Ty(name, t) == [hostname |-> PyStr(name), uptime_days |-> PyInt(45), type |-> PyStr(t)]

TypePool ==
    {[hostname |-> PyStr("a"), uptime_days |-> PyInt(45)],
     Ty("b", "switch"), Ty("c", "router"), Ty("d", "ap"), Ty("e", "Router"), Ty("f", "unknown")}

InitTypes == InitRun(TypePool, OneLoc, {HQ}, {"list"}, {Acme}, {}, FreshFiles)

SpecTypes == InitTypes /\ [][Next]_vars

TypeRows == SelectSeq(lines, LAMBDA l : l.sec = "types" /\ l.k = "type")
Totalt == SelectSeq(lines, LAMBDA l : l.sec = "types" /\ l.k = "TOTALT")[1].a[1]

TypeName(d) == IF "type" \in DOMAIN d THEN d.type.s ELSE "unknown"

RECURSIVE SumCounts(_)
SumCounts(rows) == IF rows = << >> THEN 0 ELSE Head(rows).a[2] + SumCounts(Tail(rows))

(* C8: the counts of the type histogram (no type counted as "unknown") add up
   to the device total of the TOTALT line, every type has exactly one row, and
   the rows are in ascending lexical order of the type name. *)
C8_TypeHistogram ==
    Rendered =>
        /\ Totalt = Len(devices)
        /\ SumCounts(TypeRows) = Totalt
        /\ {TypeRows[i].a[1] : i \in 1..Len(TypeRows)} = {TypeName(heap[r]) : r \in Range(devices)}
        /\ \A i \in 1..Len(TypeRows) :
             TypeRows[i].a[2] =
                Cardinality({k \in 1..Len(devices) : TypeName(heap[devices[k]]) = TypeRows[i].a[1]})
        /\ \A i, j \in 1..Len(TypeRows) :
             i < j => StrLess(TypeRows[i].a[1], TypeRows[j].a[1])

(* a device without type and one of type "unknown" share a row; "Router" sorts
   before the lower-case names *)
C8_Reached ==
    /\ pc = "done"
    /\ Len(devices) = 3
    /\ [i \in 1..Len(TypeRows) |-> TypeRows[i].a] = <<<<"Router", 1>>, <<"unknown", 2>>>>
    /\ \E r \in Range(devices) : "type" \notin DOMAIN heap[r]
    /\ \E r \in Range(devices) : Get(heap[r], "type", None) = PyStr("unknown")

====
